---- MODULE Spec2Model ----
(***************************************************************************)
(* har-proxy: HAR ingestion, the text codec of an entry, the endpoint      *)
(* registry, the dashboard page, the start of the listener and the request *)
(* handler of the mock server, as a state machine.                         *)
(*                                                                         *)
(* Strings whose characters the code inspects (methods, paths, urls,       *)
(* header names) are sequences of one-character strings, so that           *)
(* concatenation, startsWith, indexOf, toUpperCase and toLowerCase are     *)
(* computed as the code computes them.                                     *)
(***************************************************************************)
EXTENDS Integers, Sequences, FiniteSets, TLC

VARIABLES
    harFile,      \* the file given on the command line, as readFile and JSON.parse see it
    cors,         \* the --no-cors option (TRUE is the default)
    pc,           \* position of runServer / the listener
    entries,      \* ParseResult.entries
    errors,       \* ParseResult.errors
    endpointMap,  \* the registry closed over by the request handler
    req,          \* the request being handled
    res,          \* what the handler wrote to the ServerResponse
    logged,       \* the logger calls made while handling req
    formatted,    \* the text formatEntry returned for an entry
    reparsed,     \* what parseFormattedEntry made of that text
    dashboardHtml, \* the page generateDashboard made of the entries
    listenerEvent, \* the last event the listening socket emitted
    startPromise, \* the promise startServer returned
    logger,       \* whether createServer was given a logger
    calls         \* the calls the handler made for req, in order

vars == <<harFile, cors, pc, entries, errors, endpointMap, req, res, logged,
          formatted, reparsed, dashboardHtml, listenerEvent, startPromise, logger,
          calls>>

-----------------------------------------------------------------------------
(* Bounds of the model                                                     *)

MaxEntries == 3
MaxHeaders == 2
MaxPairs == 2
MaxBody == 3

-----------------------------------------------------------------------------
(* JavaScript values                                                       *)

Undefined == [undefined |-> TRUE]
Null == [null |-> TRUE]

UpperAlpha == <<"A","B","C","D","E","F","G","H","I","J","K","L","M",
                "N","O","P","Q","R","S","T","U","V","W","X","Y","Z">>
LowerAlpha == <<"a","b","c","d","e","f","g","h","i","j","k","l","m",
                "n","o","p","q","r","s","t","u","v","w","x","y","z">>

\* The upper-case letter of each lower-case letter, and the reverse
UpperOf ==
    [c \in {LowerAlpha[i] : i \in DOMAIN LowerAlpha} |->
        UpperAlpha[CHOOSE i \in DOMAIN LowerAlpha : LowerAlpha[i] = c]]
LowerOf ==
    [c \in {UpperAlpha[i] : i \in DOMAIN UpperAlpha} |->
        LowerAlpha[CHOOSE i \in DOMAIN UpperAlpha : UpperAlpha[i] = c]]

UpperChar(c) == IF c \in DOMAIN UpperOf THEN UpperOf[c] ELSE c

LowerChar(c) == IF c \in DOMAIN LowerOf THEN LowerOf[c] ELSE c

\* String.prototype.toUpperCase / toLowerCase
toUpperCase(s) == [i \in 1..Len(s) |-> UpperChar(s[i])]
toLowerCase(s) == [i \in 1..Len(s) |-> LowerChar(s[i])]

\* String.prototype.startsWith
startsWith(s, prefix) ==
    /\ Len(prefix) <= Len(s)
    /\ SubSeq(s, 1, Len(prefix)) = prefix

\* String.prototype.indexOf for a one-character needle, 1-based; 0 when absent
indexOf(s, c) ==
    IF \E i \in 1..Len(s) : s[i] = c
    THEN CHOOSE i \in 1..Len(s) : s[i] = c /\ \A j \in 1..(i - 1) : s[j] # c
    ELSE 0

-----------------------------------------------------------------------------
(* server.ts: constants                                                    *)

AllowOrigin == <<"A","c","c","e","s","s","-","C","o","n","t","r","o","l","-","A","l","l","o","w","-","O","r","i","g","i","n">>
AllowMethods == <<"A","c","c","e","s","s","-","C","o","n","t","r","o","l","-","A","l","l","o","w","-","M","e","t","h","o","d","s">>
AllowHeaders == <<"A","c","c","e","s","s","-","C","o","n","t","r","o","l","-","A","l","l","o","w","-","H","e","a","d","e","r","s">>

CorsNames == {AllowOrigin, AllowMethods, AllowHeaders}

DEFAULT_CORS_HEADERS ==
    [n \in CorsNames |->
        IF n = AllowOrigin THEN <<"*">>
        ELSE IF n = AllowMethods
        THEN <<"G","E","T",","," ","P","O","S","T",","," ","P","U","T",","," ","D","E","L","E","T","E",","," ","P","A","T","C","H",","," ","O","P","T","I","O","N","S">>
        ELSE <<"C","o","n","t","e","n","t","-","T","y","p","e",","," ","A","u","t","h","o","r","i","z","a","t","i","o","n",","," ","X","-","R","e","q","u","e","s","t","e","d","-","W","i","t","h">>]

PROXY_PREFIX == <<"/","p","r","o","x","y">>

ContentType == <<"C","o","n","t","e","n","t","-","T","y","p","e">>
contentType == <<"c","o","n","t","e","n","t","-","t","y","p","e">>
ApplicationJson == <<"a","p","p","l","i","c","a","t","i","o","n","/","j","s","o","n">>
TextHtml == <<"t","e","x","t","/","h","t","m","l">>
OctetStream == <<"a","p","p","l","i","c","a","t","i","o","n","/","o","c","t","e","t","-","s","t","r","e","a","m">>
ContentEncodingLower == <<"c","o","n","t","e","n","t","-","e","n","c","o","d","i","n","g">>
TransferEncodingLower == <<"t","r","a","n","s","f","e","r","-","e","n","c","o","d","i","n","g">>
ContentLengthLower == <<"c","o","n","t","e","n","t","-","l","e","n","g","t","h">>

GET == <<"G","E","T">>
OPTIONS == <<"O","P","T","I","O","N","S">>
Slash == <<"/">>

-----------------------------------------------------------------------------
(* parser.ts: conversion of one raw log entry                              *)

HttpScheme == <<"h","t","t","p",":","/","/">>

\* Index of the first character of s that is in the set cs; Len(s)+1 when none
firstOf(s, cs) ==
    IF \E i \in 1..Len(s) : s[i] \in cs
    THEN CHOOSE i \in 1..Len(s) : s[i] \in cs /\ \A j \in 1..(i - 1) : s[j] \notin cs
    ELSE Len(s) + 1

\* new URL(url).pathname for http URLs "http://host[/path][?query][#fragment]"
\* (no dot segments or characters that the URL parser escapes); a string
\* without a scheme makes URL throw and the fallback pattern does not match
\* it either, which gives '/'.
extractPath(url) ==
    IF startsWith(url, HttpScheme)
    THEN LET rest == SubSeq(url, Len(HttpScheme) + 1, Len(url))
             from == firstOf(rest, {"/", "?", "#"})
             tail == SubSeq(rest, from, Len(rest))
             path == SubSeq(tail, 1, firstOf(tail, {"?", "#"}) - 1)
         IN  IF path = <<>> THEN Slash ELSE path
    ELSE Slash

\* headers.find(h => h.name.toLowerCase() === 'content-type')?.value || default
findContentType(headers) ==
    LET found == {i \in 1..Len(headers) : toLowerCase(headers[i].name) = contentType}
        first == CHOOSE i \in found : \A j \in found : i <= j
    IN  IF found # {} /\ headers[first].value # <<>>
        THEN headers[first].value
        ELSE OctetStream

\* A body that went through Buffer is a sequence of UTF-16 code units
\* (numbers); a lone surrogate is a code unit of 0xD800..0xDFFF that is not
\* part of a high/low pair.
isHighSurrogate(u) == u \in 55296..56319
isLowSurrogate(u) == u \in 56320..57343

\* Buffer.from(content, 'utf-8'): the bytes of the string; a surrogate that
\* has no partner is written as U+FFFD (EF BF BD)
RECURSIVE utf8Encode(_)
utf8Encode(s) ==
    IF s = <<>> THEN <<>>
    ELSE LET u == Head(s)
         IN  IF isHighSurrogate(u) /\ Len(s) >= 2 /\ isLowSurrogate(s[2])
             THEN LET cp == 65536 + (u - 55296) * 1024 + (s[2] - 56320)
                  IN  <<240 + (cp \div 262144), 128 + ((cp \div 4096) % 64),
                        128 + ((cp \div 64) % 64), 128 + (cp % 64)>>
                          \o utf8Encode(SubSeq(s, 3, Len(s)))
             ELSE IF isHighSurrogate(u) \/ isLowSurrogate(u)
             THEN <<239, 191, 189>> \o utf8Encode(Tail(s))
             ELSE IF u < 128
             THEN <<u>> \o utf8Encode(Tail(s))
             ELSE IF u < 2048
             THEN <<192 + (u \div 64), 128 + (u % 64)>> \o utf8Encode(Tail(s))
             ELSE <<224 + (u \div 4096), 128 + ((u \div 64) % 64), 128 + (u % 64)>>
                      \o utf8Encode(Tail(s))

isContinuation(bytes, i) == i <= Len(bytes) /\ bytes[i] \in 128..191

\* buffer.toString('utf-8'): the code units of well-formed UTF-8; a byte that
\* starts no sequence becomes U+FFFD
RECURSIVE utf8Decode(_)
utf8Decode(bytes) ==
    IF bytes = <<>> THEN <<>>
    ELSE LET b == Head(bytes)
         IN  IF b < 128
             THEN <<b>> \o utf8Decode(Tail(bytes))
             ELSE IF b \in 194..223 /\ isContinuation(bytes, 2)
             THEN <<(b - 192) * 64 + (bytes[2] - 128)>>
                      \o utf8Decode(SubSeq(bytes, 3, Len(bytes)))
             ELSE IF b \in 224..239 /\ isContinuation(bytes, 2) /\ isContinuation(bytes, 3)
             THEN <<(b - 224) * 4096 + (bytes[2] - 128) * 64 + (bytes[3] - 128)>>
                      \o utf8Decode(SubSeq(bytes, 4, Len(bytes)))
             ELSE IF /\ b \in 240..244 /\ isContinuation(bytes, 2)
                     /\ isContinuation(bytes, 3) /\ isContinuation(bytes, 4)
             THEN LET cp == (b - 240) * 262144 + (bytes[2] - 128) * 4096
                                + (bytes[3] - 128) * 64 + (bytes[4] - 128)
                  IN  <<55296 + ((cp - 65536) \div 1024), 56320 + ((cp - 65536) % 1024)>>
                          \o utf8Decode(SubSeq(bytes, 5, Len(bytes)))
             ELSE <<65533>> \o utf8Decode(Tail(bytes))

Base64Alphabet ==
    UpperAlpha \o LowerAlpha \o <<"0","1","2","3","4","5","6","7","8","9","+","/">>

Base64Digit(v) == Base64Alphabet[v + 1]
Base64Value(c) == (CHOOSE i \in 1..Len(Base64Alphabet) : Base64Alphabet[i] = c) - 1

\* buffer.toString('base64'): four digits for three bytes, padded with '='
RECURSIVE base64FromBytes(_)
base64FromBytes(bytes) ==
    IF bytes = <<>> THEN <<>>
    ELSE IF Len(bytes) = 1
    THEN <<Base64Digit(bytes[1] \div 4), Base64Digit((bytes[1] % 4) * 16), "=", "=">>
    ELSE IF Len(bytes) = 2
    THEN <<Base64Digit(bytes[1] \div 4),
           Base64Digit((bytes[1] % 4) * 16 + (bytes[2] \div 16)),
           Base64Digit((bytes[2] % 16) * 4), "=">>
    ELSE <<Base64Digit(bytes[1] \div 4),
           Base64Digit((bytes[1] % 4) * 16 + (bytes[2] \div 16)),
           Base64Digit((bytes[2] % 16) * 4 + (bytes[3] \div 64)),
           Base64Digit(bytes[3] % 64)>>
             \o base64FromBytes(SubSeq(bytes, 4, Len(bytes)))

\* The bytes of a sequence of six-bit values; a last group of one is dropped
RECURSIVE bytesFromSextets(_)
bytesFromSextets(v) ==
    IF Len(v) <= 1 THEN <<>>
    ELSE IF Len(v) = 2
    THEN <<v[1] * 4 + (v[2] \div 16)>>
    ELSE IF Len(v) = 3
    THEN <<v[1] * 4 + (v[2] \div 16), (v[2] % 16) * 16 + (v[3] \div 4)>>
    ELSE <<v[1] * 4 + (v[2] \div 16), (v[2] % 16) * 16 + (v[3] \div 4),
           (v[3] % 4) * 64 + v[4]>>
             \o bytesFromSextets(SubSeq(v, 5, Len(v)))

\* Buffer.from(encoded, 'base64') for a text of base64 digits that may end in
\* '=' padding: decoding stops at the first '='
bytesFromBase64(encoded) ==
    LET digits == SubSeq(encoded, 1, firstOf(encoded, {"="}) - 1)
    IN  bytesFromSextets([i \in 1..Len(digits) |-> Base64Value(digits[i])])

decodeBase64(encoded) == utf8Decode(bytesFromBase64(encoded))

encodeBase64(content) == base64FromBytes(utf8Encode(content))

\* content.text when it is present
textOf(content) == IF "text" \in DOMAIN content THEN content.text ELSE <<>>

\* Variant: the text is kept whatever the encoding says
responseBodyAsIs(content) == textOf(content)

\* The response body of transformEntry; an absent and an empty text are
\* both falsy
responseBodyOf(content) ==
    IF textOf(content) # <<>>
    THEN IF "encoding" \in DOMAIN content /\ content.encoding = "base64"
         THEN decodeBase64(content.text)
         ELSE content.text
    ELSE <<>>

\* transformEntry throws a TypeError when it reads a property of an undefined
\* response (response.content, its first statement) or of an undefined
\* request (request.method).
transformThrows(logEntry) ==
    logEntry.response = Undefined \/ logEntry.request = Undefined

\* Variant: the pairs come out in reverse order
copyPairsReversed(pairs) ==
    [i \in 1..Len(pairs) |->
        [name |-> pairs[Len(pairs) + 1 - i].name, value |-> pairs[Len(pairs) + 1 - i].value]]

\* list.map((h) => ({ name: h.name, value: h.value }))
copyPairs(pairs) == [i \in 1..Len(pairs) |-> [name |-> pairs[i].name, value |-> pairs[i].value]]

transformEntry(logEntry) ==
    LET request == logEntry.request
        response == logEntry.response
        responseBody == responseBodyOf(response.content)
        responseHeaders == copyPairs(response.headers)
    IN  [method |-> toUpperCase(request.method),
         url |-> request.url,
         path |-> extractPath(request.url),
         queryString |-> copyPairs(request.queryString),
         requestHeaders |-> copyPairs(request.headers),
         status |-> response.status,
         responseHeaders |-> responseHeaders,
         responseBody |-> responseBody,
         contentType |-> findContentType(responseHeaders),
         timestamp |-> logEntry.startedDateTime]

\* The message of the TypeError thrown at request.method
transformError == "Cannot read properties of undefined (reading 'method')"

\* The message of the TypeError that transformEntry throws for a log entry:
\* response.content is read before request.method
transformErrorOf(logEntry) ==
    IF logEntry.response = Undefined
    THEN "Cannot read properties of undefined (reading 'content')"
    ELSE transformError

\* `Error parsing entry ${i}: ${error}`
ItemError(i, message) ==
    [template |-> "Error parsing entry", index |-> i, message |-> message]

\* The loop of parseHarFile over log.entries, from item i on (the index in
\* the message counts from 0)
RECURSIVE parseItems(_, _, _)
parseItems(log, i, acc) ==
    IF i > Len(log) THEN acc
    ELSE IF transformThrows(log[i])
         THEN parseItems(log, i + 1,
                [acc EXCEPT !.errors =
                    Append(@, ItemError(i - 1, transformErrorOf(log[i])))])
         ELSE parseItems(log, i + 1,
                [acc EXCEPT !.entries = Append(@, transformEntry(log[i]))])

\* JSON values: what JSON.parse returns, and a missing property
JUndefined == [type |-> "undefined"]
JNull == [type |-> "null"]
JString == [type |-> "string"]
JArray(items) == [type |-> "array", items |-> items]

\* value[name]
Get(value, name) == IF name \in DOMAIN value THEN value[name] ELSE JUndefined

\* typeof value === 'object' && value !== null (an array is an object)
isObject(value) == value.type \in {"object", "array"}

validateHarStructure(data) ==
    /\ isObject(data)
    /\ isObject(Get(data, "log"))
    /\ Get(Get(data, "log"), "entries").type = "array"

\* A result with no entry and one top-level error
TopLevelError(template) ==
    [entries |-> <<>>, errors |-> <<[template |-> template]>>]

\* Variant: the first item that fails ends the batch with its error alone
parseHarFileFailFast(file) ==
    IF file.read # "ok" THEN TopLevelError("Failed to read file")
    ELSE IF file.json.type = "syntaxError" THEN TopLevelError("Invalid JSON format")
    ELSE IF ~validateHarStructure(file.json)
    THEN TopLevelError("Invalid HAR file structure: missing log.entries array")
    ELSE LET log == file.json.log.entries.items
             bad == {i \in 1..Len(log) : transformThrows(log[i])}
             first == CHOOSE i \in bad : \A j \in bad : i <= j
         IN  IF bad = {} THEN parseItems(log, 1, [entries |-> <<>>, errors |-> <<>>])
             ELSE [entries |-> parseItems(SubSeq(log, 1, first - 1), 1,
                                          [entries |-> <<>>, errors |-> <<>>]).entries,
                   errors |-> <<ItemError(first - 1, transformErrorOf(log[first]))>>]

\* Variant: a document of the wrong structure is an empty recording
parseHarFileLenient(file) ==
    IF file.read # "ok" THEN TopLevelError("Failed to read file")
    ELSE IF file.json.type = "syntaxError" THEN TopLevelError("Invalid JSON format")
    ELSE IF ~validateHarStructure(file.json)
    THEN [entries |-> <<>>, errors |-> <<>>]
    ELSE parseItems(file.json.log.entries.items, 1, [entries |-> <<>>, errors |-> <<>>])

\* readFile rejects; JSON.parse throws; validateHarStructure fails; the loop
parseHarFile(file) ==
    IF file.read # "ok" THEN TopLevelError("Failed to read file")
    ELSE IF file.json.type = "syntaxError" THEN TopLevelError("Invalid JSON format")
    ELSE IF ~validateHarStructure(file.json)
    THEN TopLevelError("Invalid HAR file structure: missing log.entries array")
    ELSE parseItems(file.json.log.entries.items, 1, [entries |-> <<>>, errors |-> <<>>])

-----------------------------------------------------------------------------
(* parser.ts: text codec                                                   *)

NL == "\n"
Indent == <<" "," ">>
Ellipsis == <<".",".",".">>
RequestHeadersMark == <<"R","e","q","u","e","s","t"," ","H","e","a","d","e","r","s",":">>
QueryParametersMark == <<"Q","u","e","r","y"," ","P","a","r","a","m","e","t","e","r","s",":">>
ResponseHeadersMark == <<"R","e","s","p","o","n","s","e"," ","H","e","a","d","e","r","s",":">>
ResponseBodyMark == <<"R","e","s","p","o","n","s","e"," ","B","o","d","y",":">>
Localhost == <<"h","t","t","p",":","/","/","l","o","c","a","l","h","o","s","t">>

\* The length above which formatEntry cuts the body
PreviewLength == 200

DigitChars == <<"0","1","2","3","4","5","6","7","8","9">>
isDigit(c) == \E i \in 1..Len(DigitChars) : DigitChars[i] = c
DigitValue(c) == (CHOOSE i \in 1..Len(DigitChars) : DigitChars[i] = c) - 1

\* `${n}` for a number n >= 0
RECURSIVE numberToString(_)
numberToString(n) ==
    IF n < 10 THEN <<DigitChars[n + 1]>>
    ELSE numberToString(n \div 10) \o <<DigitChars[(n % 10) + 1]>>

\* parseInt(digits, 10) for a string of digits
RECURSIVE parseInt(_)
parseInt(digits) ==
    IF digits = <<>> THEN 0
    ELSE parseInt(SubSeq(digits, 1, Len(digits) - 1)) * 10 + DigitValue(digits[Len(digits)])

\* lines.join('\n')
RECURSIVE join(_)
join(lines) ==
    IF lines = <<>> THEN <<>>
    ELSE IF Len(lines) = 1 THEN lines[1]
    ELSE lines[1] \o <<NL>> \o join(Tail(lines))

\* text.split('\n')
RECURSIVE split(_)
split(text) ==
    LET at == firstOf(text, {NL})
    IN  IF at > Len(text) THEN <<text>>
        ELSE <<SubSeq(text, 1, at - 1)>> \o split(SubSeq(text, at + 1, Len(text)))

\* String.prototype.indexOf for a needle of any length, 1-based; 0 when absent
indexOfString(s, needle) ==
    LET hits == {i \in 1..(Len(s) - Len(needle) + 1) : SubSeq(s, i, i + Len(needle) - 1) = needle}
    IN  IF hits = {} THEN 0 ELSE CHOOSE i \in hits : \A j \in hits : i <= j

endsWith(s, suffix) ==
    /\ Len(suffix) <= Len(s)
    /\ SubSeq(s, Len(s) - Len(suffix) + 1, Len(s)) = suffix

headerLines(pairs) ==
    [i \in 1..Len(pairs) |-> Indent \o pairs[i].name \o <<":"," ">> \o pairs[i].value]

queryLines(pairs) ==
    [i \in 1..Len(pairs) |-> Indent \o pairs[i].name \o <<"=">> \o pairs[i].value]

\* `${method} ${path} ${status} ${contentType} [${timestamp}]`
summaryLine(entry) ==
    entry.method \o <<" ">> \o entry.path \o <<" ">> \o numberToString(entry.status)
        \o <<" ">> \o entry.contentType \o <<" ","[">> \o entry.timestamp \o <<"]">>

bodyPreview(body) ==
    IF Len(body) > PreviewLength
    THEN SubSeq(body, 1, PreviewLength) \o Ellipsis
    ELSE body

formatEntry(entry) ==
    join(<<summaryLine(entry)>>
         \o (IF Len(entry.requestHeaders) > 0
             THEN <<RequestHeadersMark>> \o headerLines(entry.requestHeaders) ELSE <<>>)
         \o (IF Len(entry.queryString) > 0
             THEN <<QueryParametersMark>> \o queryLines(entry.queryString) ELSE <<>>)
         \o (IF Len(entry.responseHeaders) > 0
             THEN <<ResponseHeadersMark>> \o headerLines(entry.responseHeaders) ELSE <<>>)
         \o (IF entry.responseBody # <<>>
             THEN <<ResponseBodyMark, Indent \o bodyPreview(entry.responseBody)>> ELSE <<>>))

\* \s and \S of the first-line pattern
isSpace(c) == c \in {" ", NL}

\* The end of the run of characters from position i on that are (or are not)
\* white space: the position after its last character
RECURSIVE runEnd(_, _, _)
runEnd(s, i, space) ==
    IF i > Len(s) \/ isSpace(s[i]) # space THEN i ELSE runEnd(s, i + 1, space)

\* Variant: the pattern without its closing bracket
matchSummaryOpenEnded(line) ==
    LET a1 == runEnd(line, 1, FALSE)
        b1 == runEnd(line, a1, TRUE)
        a2 == runEnd(line, b1, FALSE)
        b2 == runEnd(line, a2, TRUE)
        a3 == runEnd(line, b2, FALSE)
        b3 == runEnd(line, a3, TRUE)
        a4 == runEnd(line, b3, FALSE)
        b4 == runEnd(line, a4, TRUE)
    IN  IF /\ a1 > 1 /\ b1 > a1 /\ a2 > b1 /\ b2 > a2 /\ a3 > b2 /\ b3 > a3
           /\ a4 > b3 /\ b4 > a4
           /\ \A i \in b2..(a3 - 1) : isDigit(line[i])
           /\ b4 <= Len(line) /\ line[b4] = "["
           /\ Len(line) - b4 >= 1
        THEN [method |-> SubSeq(line, 1, a1 - 1),
              path |-> SubSeq(line, b1, a2 - 1),
              statusStr |-> SubSeq(line, b2, a3 - 1),
              contentType |-> SubSeq(line, b3, a4 - 1),
              timestamp |-> SubSeq(line, b4 + 1, Len(line))]
        ELSE Null

\* firstLine.match(/^(\S+)\s+(\S+)\s+(\d+)\s+(\S+)\s+\[(.+)\]$/): the five
\* groups, or Null. A \S+ group is followed by \s, so it is a whole run of
\* characters that are not white space; the last group runs to the final ']'.
matchSummary(line) ==
    LET a1 == runEnd(line, 1, FALSE)
        b1 == runEnd(line, a1, TRUE)
        a2 == runEnd(line, b1, FALSE)
        b2 == runEnd(line, a2, TRUE)
        a3 == runEnd(line, b2, FALSE)
        b3 == runEnd(line, a3, TRUE)
        a4 == runEnd(line, b3, FALSE)
        b4 == runEnd(line, a4, TRUE)
    IN  IF /\ a1 > 1 /\ b1 > a1 /\ a2 > b1 /\ b2 > a2 /\ a3 > b2 /\ b3 > a3
           /\ a4 > b3 /\ b4 > a4
           /\ \A i \in b2..(a3 - 1) : isDigit(line[i])
           /\ b4 <= Len(line) /\ line[b4] = "["
           /\ line[Len(line)] = "]"
           /\ Len(line) - b4 >= 2
           /\ \A i \in (b4 + 1)..(Len(line) - 1) : line[i] # NL
        THEN [method |-> SubSeq(line, 1, a1 - 1),
              path |-> SubSeq(line, b1, a2 - 1),
              statusStr |-> SubSeq(line, b2, a3 - 1),
              contentType |-> SubSeq(line, b3, a4 - 1),
              timestamp |-> SubSeq(line, b4 + 1, Len(line) - 1)]
        ELSE Null

\* One line after the first: the section it selects and the entry it leaves
parseLine(line, section, entry) ==
    IF line = RequestHeadersMark THEN [section |-> "requestHeaders", entry |-> entry]
    ELSE IF line = QueryParametersMark THEN [section |-> "queryParams", entry |-> entry]
    ELSE IF line = ResponseHeadersMark THEN [section |-> "responseHeaders", entry |-> entry]
    ELSE IF line = ResponseBodyMark THEN [section |-> "body", entry |-> entry]
    ELSE IF ~startsWith(line, Indent) THEN [section |-> section, entry |-> entry]
    ELSE LET content == SubSeq(line, 3, Len(line))
             colonIndex == indexOfString(content, <<":"," ">>)
             eqIndex == indexOfString(content, <<"=">>)
             header == [name |-> SubSeq(content, 1, colonIndex - 1),
                        value |-> SubSeq(content, colonIndex + 2, Len(content))]
             param == [name |-> SubSeq(content, 1, eqIndex - 1),
                       value |-> SubSeq(content, eqIndex + 1, Len(content))]
         IN  [section |-> section,
              entry |->
                IF section = "requestHeaders" /\ colonIndex > 1
                THEN [entry EXCEPT !.requestHeaders = Append(@, header)]
                ELSE IF section = "responseHeaders" /\ colonIndex > 1
                THEN [entry EXCEPT !.responseHeaders = Append(@, header)]
                ELSE IF section = "queryParams" /\ eqIndex > 1
                THEN [entry EXCEPT !.queryString = Append(@, param)]
                ELSE IF section = "body"
                THEN [entry EXCEPT !.responseBody =
                        IF endsWith(content, Ellipsis)
                        THEN SubSeq(content, 1, Len(content) - 3)
                        ELSE content]
                ELSE entry]

\* The loop over lines[1..], from line i on
RECURSIVE parseLines(_, _, _, _)
parseLines(lines, i, section, entry) ==
    IF i > Len(lines) THEN entry
    ELSE LET step == parseLine(lines[i], section, entry)
         IN  parseLines(lines, i + 1, step.section, step.entry)

\* The entry, or the error thrown for the first line
parseFormattedEntry(text) ==
    LET lines == split(text)
        match == matchSummary(lines[1])
    IN  IF match = Null
        THEN [kind |-> "error", message |-> "Invalid format", line |-> lines[1]]
        ELSE [kind |-> "entry",
              entry |-> parseLines(lines, 2, "",
                            [method |-> match.method,
                             url |-> Localhost \o match.path,
                             path |-> match.path,
                             queryString |-> <<>>,
                             requestHeaders |-> <<>>,
                             status |-> parseInt(match.statusStr),
                             responseHeaders |-> <<>>,
                             responseBody |-> <<>>,
                             contentType |-> match.contentType,
                             timestamp |-> match.timestamp])]

-----------------------------------------------------------------------------
(* server.ts: registry                                                     *)

\* Variant: the path is registered without the prefix
getProxyPathPlain(originalPath) == originalPath

getProxyPath(originalPath) == PROXY_PREFIX \o originalPath

\* Variant: the path is cut at the last '?'
stripAtLastQuery(urlPath) ==
    LET marks == {i \in 1..Len(urlPath) : urlPath[i] = "?"}
    IN  IF marks = {} THEN urlPath
        ELSE SubSeq(urlPath, 1, (CHOOSE i \in marks : \A j \in marks : j <= i) - 1)

stripQueryParams(urlPath) ==
    LET queryIndex == indexOf(urlPath, "?")
    IN  IF queryIndex = 0 THEN urlPath ELSE SubSeq(urlPath, 1, queryIndex - 1)

ProtoKey == <<"_","_","p","r","o","t","o","_","_">>

\* map[key] = value on an object created as {}: an assignment to the key
\* '__proto__' goes to the prototype setter and creates no own property
Put(map, key, value) ==
    IF key = ProtoKey
    THEN map
    ELSE [k \in DOMAIN map \cup {key} |-> IF k = key THEN value ELSE map[k]]

\* Variant: the key leaves the method out
EntryKeyPathOnly(entry) == <<":">> \o getProxyPath(entry.path)

EntryKey(entry) == entry.method \o <<":">> \o getProxyPath(entry.path)

RECURSIVE buildFrom(_, _)
buildFrom(map, es) ==
    IF es = <<>> THEN map
    ELSE buildFrom(Put(map, EntryKey(Head(es)), Head(es)), Tail(es))

Reverse(es) == [i \in 1..Len(es) |-> es[Len(es) + 1 - i]]

\* Variant: the first entry of a key is kept (the sequence is walked backwards)
buildEndpointMapFirstWins(es) == buildFrom(<<>>, Reverse(es))

buildEndpointMap(es) == buildFrom(<<>>, es)

\* Variant: the path is case-folded before the lookup
findMatchingEntryFolded(method, path, map) ==
    LET key == toUpperCase(method) \o <<":">> \o toLowerCase(path)
    IN  IF key \in DOMAIN map THEN map[key] ELSE Null

findMatchingEntry(method, path, map) ==
    LET key == toUpperCase(method) \o <<":">> \o path
    IN  IF key \in DOMAIN map THEN map[key] ELSE Null

getEndpointCount(map) == Cardinality(DOMAIN map)

-----------------------------------------------------------------------------
(* server.ts: request handler                                              *)

EmptyBody == [kind |-> "empty"]
TextBody(text) == [kind |-> "text", text |-> text]
HtmlBody == [kind |-> "html"]
JsonBody(template, method, path) ==
    [kind |-> "json", error |-> "Not Found",
     message |-> [template |-> template, method |-> method, path |-> path,
                  prefix |-> PROXY_PREFIX]]

\* headers[name] = DEFAULT_CORS_HEADERS[name] for the three names
applyCorsHeaders(headers) ==
    [n \in DOMAIN headers \cup CorsNames |->
        IF n \in CorsNames THEN DEFAULT_CORS_HEADERS[n] ELSE headers[n]]

Response(kind, status, headers, body, lookup) ==
    [kind |-> kind, status |-> status, headers |-> headers, body |-> body,
     lookup |-> lookup]

handlePreflightRequest ==
    Response("preflight", 204, applyCorsHeaders(<<>>), EmptyBody, FALSE)

\* cli.ts: the dashboardHandler that runServer passes to createServer
dashboardHandler ==
    Response("dashboard", 200, Put(<<>>, ContentType, TextHtml), HtmlBody, FALSE)

JsonHeaders(c) ==
    LET headers == Put(<<>>, ContentType, ApplicationJson)
    IN  IF c THEN applyCorsHeaders(headers) ELSE headers

\* Variant: the name is compared without lower-casing it
isExcludedHeaderCaseSensitive(name) ==
    name \in {ContentEncodingLower, TransferEncodingLower, ContentLengthLower}

isExcludedHeader(name) ==
    LET lowerName == toLowerCase(name)
    IN  \/ lowerName = ContentEncodingLower
        \/ lowerName = TransferEncodingLower
        \/ lowerName = ContentLengthLower

\* The loop over entry.responseHeaders: headers[header.name] = header.value
RECURSIVE copyResponseHeaders(_, _)
copyResponseHeaders(headers, hs) ==
    IF hs = <<>> THEN headers
    ELSE copyResponseHeaders(
            IF isExcludedHeader(Head(hs).name)
            THEN headers
            ELSE Put(headers, Head(hs).name, Head(hs).value),
            Tail(hs))

\* !headers[name]: the key is absent or its value is the empty string
falsy(headers, name) == name \notin DOMAIN headers \/ headers[name] = <<>>

ensureContentType(headers, entry) ==
    IF falsy(headers, ContentType) /\ falsy(headers, contentType)
    THEN Put(headers, ContentType, entry.contentType)
    ELSE headers

\* Variant: the CORS headers are applied whatever the option says
hitHeadersAlwaysCors(entry, c) ==
    applyCorsHeaders(ensureContentType(copyResponseHeaders(<<>>, entry.responseHeaders), entry))

hitHeaders(entry, c) ==
    LET copied == copyResponseHeaders(<<>>, entry.responseHeaders)
        typed == ensureContentType(copied, entry)
    IN  IF c THEN applyCorsHeaders(typed) ELSE typed

\* Variant: the preflight answer does not depend on the CORS option
isPreflightAnyCors(method, c, path) ==
    method = OPTIONS /\ startsWith(path, PROXY_PREFIX)

\* method === 'OPTIONS' && cors && path.startsWith(PROXY_PREFIX)
isPreflight(method, c, path) ==
    method = OPTIONS /\ c /\ startsWith(path, PROXY_PREFIX)

\* Variant: a hit is always answered 200
replayOk(entry, c) ==
    Response("hit", 200, hitHeaders(entry, c), TextBody(entry.responseBody), TRUE)

\* res.writeHead(entry.status, headers); res.end(entry.responseBody)
replay(entry, c) ==
    Response("hit", entry.status, hitHeaders(entry, c),
             TextBody(entry.responseBody), TRUE)

\* Variant: the dashboard answers every method at '/'
isDashboardAnyMethod(method, path) == path = Slash

\* path === '/' && method === 'GET'
isDashboard(method, path) == path = Slash /\ method = GET

LogCall(method, path, status) == [method |-> method, path |-> path, status |-> status]

\* The handler returned by createRequestHandler(map, dashboardHandler, c, logger),
\* applied to a request r: the response written and the logger calls made.
createRequestHandler(map, c, r) ==
    LET method == IF r.method = <<>> THEN GET ELSE toUpperCase(r.method)
        rawUrl == IF r.url = <<>> THEN Slash ELSE r.url
        path == stripQueryParams(rawUrl)
        entry == findMatchingEntry(method, path, map)
    IN  IF isDashboard(method, path)
        THEN [res |-> dashboardHandler,
              logged |-> <<LogCall(method, path, 200)>>]
        ELSE IF isPreflight(method, c, path)
        THEN [res |-> handlePreflightRequest,
              logged |-> <<LogCall(method, path, 204)>>]
        ELSE IF ~startsWith(path, PROXY_PREFIX)
        THEN [res |-> Response("notProxy", 404, JsonHeaders(c),
                               JsonBody("notProxy", method, path), FALSE),
              logged |-> <<LogCall(method, path, 404)>>]
        ELSE IF entry = Null
        THEN [res |-> Response("miss", 404, JsonHeaders(c),
                               JsonBody("noMatch", method, path), TRUE),
              logged |-> <<LogCall(method, path, 404)>>]
        ELSE [res |-> replay(entry, c),
              logged |-> <<LogCall(method, path, entry.status)>>]

\* ServerResponse.writeHead(statusCode, headers) of node:http throws a
\* RangeError for a status code outside 100..999
writeHeadThrows(status) == status < 100 \/ status > 999

\* The calls each branch of the handler makes on its way to the return, by
\* the response it computed: the dashboard branch hands res to
\* dashboardHandler; handlePreflightRequest and the other branches call
\* writeHead, then end, unless writeHead throws
responseCalls(response) ==
    CASE response.kind = "dashboard" -> <<"dashboardHandler">>
      [] response.kind = "preflight" -> <<"writeHead", "end">>
      [] response.kind = "notProxy" -> <<"writeHead", "end">>
      [] response.kind = "miss" -> <<"writeHead", "end">>
      [] response.kind = "hit" ->
            IF writeHeadThrows(response.status)
            THEN <<"writeHead">>
            ELSE <<"writeHead", "end">>

\* Variant: an entry is served once, then removed from the map
requestListenerServeOnce(map, c, r, lg) ==
    LET out == createRequestHandler(map, c, r)
        threw == out.res.kind = "hit" /\ writeHeadThrows(out.res.status)
        served == {k \in DOMAIN map : out.res.kind = "hit" /\ replay(map[k], c) = out.res}
    IN  [res |-> out.res,
         threw |-> threw,
         logged |-> IF lg /\ ~threw THEN out.logged ELSE <<>>,
         calls |-> responseCalls(out.res)
                     \o (IF lg /\ ~threw THEN <<"logger">> ELSE <<>>),
         map |-> [k \in DOMAIN map \ served |-> map[k]]]

\* The handler with its optional logger, logger?.(method, path, status): lg
\* tells whether a logger was given; the calls made are listed in order and
\* res holds the arguments computed for writeHead and end. An exception
\* thrown by writeHead leaves the handler before end and the logger call.
\* The handler only reads the map (map[key] in findMatchingEntry) and the
\* entry it finds: the map after the call is the map before it.
requestListener(map, c, r, lg) ==
    LET out == createRequestHandler(map, c, r)
        threw == out.res.kind = "hit" /\ writeHeadThrows(out.res.status)
    IN  [res |-> out.res,
         threw |-> threw,
         logged |-> IF lg /\ ~threw THEN out.logged ELSE <<>>,
         calls |-> responseCalls(out.res)
                     \o (IF lg /\ ~threw THEN <<"logger">> ELSE <<>>),
         map |-> map]

-----------------------------------------------------------------------------
(* dashboard.ts: the endpoint list shown at '/'                            *)

\* path.split('/').filter(Boolean): the first segment with a '/' before it,
\* or '/' when the path has no segment
getBasePath(path) ==
    LET starts == {i \in 1..Len(path) : path[i] # "/"}
        from == CHOOSE i \in starts : \A j \in starts : i <= j
        upTo == firstOf(SubSeq(path, from, Len(path)), {"/"}) - 1
    IN  IF starts = {} THEN Slash
        ELSE Slash \o SubSeq(path, from, from + upTo - 1)

toEndpointInfo(entry) ==
    [method |-> entry.method, path |-> entry.path,
     status |-> entry.status, contentType |-> entry.contentType]

\* The order of the characters that paths and methods are made of, for
\* localeCompare: punctuation, digits, letters; a letter and its capital
\* share a rank (no two strings of the model differ by case alone)
CollationOrder == <<"_", "-", ".", "/">> \o DigitChars \o LowerAlpha
CollationRank(c) ==
    LET l == LowerChar(c)
        at == {i \in 1..Len(CollationOrder) : CollationOrder[i] = l}
    IN  IF at = {} THEN 0 ELSE CHOOSE i \in at : TRUE

\* a.localeCompare(b): negative, zero or positive
localeCompare(a, b) ==
    LET differ == {i \in 1..Len(a) : i > Len(b) \/ CollationRank(a[i]) # CollationRank(b[i])}
        at == CHOOSE i \in differ : \A j \in differ : i <= j
    IN  IF differ = {} THEN (IF Len(a) < Len(b) THEN -1 ELSE 0)
        ELSE IF at > Len(b) THEN 1
        ELSE IF CollationRank(a[at]) < CollationRank(b[at]) THEN -1 ELSE 1

\* Array.prototype.sort with a comparator: a stable sort (an insertion sort
\* for arrays this short). The comparator is given as its results on pairs of
\* elements, compare[<<a, b>>] for compare(a, b). insertSorted puts x behind
\* the last element of a sorted list that does not come after x.
RECURSIVE insertSorted(_, _, _)
insertSorted(sorted, x, compare) ==
    IF sorted = <<>> THEN <<x>>
    ELSE LET last == sorted[Len(sorted)]
         IN  IF compare[<<last, x>>] <= 0
             THEN Append(sorted, x)
             ELSE Append(insertSorted(SubSeq(sorted, 1, Len(sorted) - 1), x, compare), last)

RECURSIVE sortWith(_, _)
sortWith(list, compare) ==
    IF list = <<>> THEN <<>>
    ELSE insertSorted(sortWith(SubSeq(list, 1, Len(list) - 1), compare),
                      list[Len(list)], compare)

\* Sort endpoints by path, then by method
compareEndpoints(a, b) ==
    IF localeCompare(a.path, b.path) # 0
    THEN localeCompare(a.path, b.path)
    ELSE localeCompare(a.method, b.method)

compareGroups(a, b) == localeCompare(a.basePath, b.basePath)

\* The Map of groups after the loop over the entries, in insertion order
RECURSIVE groupsOf(_, _)
groupsOf(groups, es) ==
    IF es = <<>> THEN groups
    ELSE LET basePath == getBasePath(Head(es).path)
             info == toEndpointInfo(Head(es))
             has == \E i \in 1..Len(groups) : groups[i].basePath = basePath
             next == IF has
                     THEN [i \in 1..Len(groups) |->
                             IF groups[i].basePath = basePath
                             THEN [groups[i] EXCEPT !.endpoints = Append(@, info)]
                             ELSE groups[i]]
                     ELSE Append(groups, [basePath |-> basePath, endpoints |-> <<info>>])
         IN  groupsOf(next, Tail(es))

groupEndpoints(es) ==
    LET groups == groupsOf(<<>>, es)
        Elements(list) == {list[i] : i \in 1..Len(list)}
        byPathThenMethod(list) ==
            [p \in Elements(list) \X Elements(list) |-> compareEndpoints(p[1], p[2])]
        byBasePath(list) ==
            [p \in Elements(list) \X Elements(list) |-> compareGroups(p[1], p[2])]
        sorted == [i \in 1..Len(groups) |->
                     [basePath |-> groups[i].basePath,
                      endpoints |-> sortWith(groups[i].endpoints,
                                             byPathThenMethod(groups[i].endpoints))]]
    IN  sortWith(sorted, byBasePath(sorted))

\* escapeHtml: & < > " ' become entities
HtmlEntity(c) ==
    CASE c = "&" -> <<"&","a","m","p",";">>
      [] c = "<" -> <<"&","l","t",";">>
      [] c = ">" -> <<"&","g","t",";">>
      [] c = "\"" -> <<"&","q","u","o","t",";">>
      [] c = "'" -> <<"&","#","0","3","9",";">>
      [] OTHER -> <<c>>

RECURSIVE escapeHtml(_)
escapeHtml(text) ==
    IF text = <<>> THEN <<>> ELSE HtmlEntity(Head(text)) \o escapeHtml(Tail(text))

EndpointWord == <<" ","e","n","d","p","o","i","n","t">>
LoadedWord == <<" ","l","o","a","d","e","d">>

\* generateDashboard: the texts the page holds, in the order of the page:
\* the header line, then per group its title and one row of four spans per
\* endpoint, or the 'No endpoints loaded' paragraph
generateDashboard(es) ==
    LET groups == groupEndpoints(es)
        totalEndpoints == Len(es)
    IN  [header |-> numberToString(totalEndpoints) \o EndpointWord
                      \o (IF totalEndpoints # 1 THEN <<"s">> ELSE <<>>) \o LoadedWord,
         groups |-> [g \in 1..Len(groups) |->
                      [title |-> escapeHtml(groups[g].basePath),
                       endpoints |-> [e \in 1..Len(groups[g].endpoints) |->
                          LET ep == groups[g].endpoints[e]
                          IN  [method |-> escapeHtml(ep.method),
                               path |-> escapeHtml(ep.path),
                               status |-> numberToString(ep.status),
                               contentType |-> escapeHtml(ep.contentType)]]]],
         noEndpoints |-> groups = <<>>]

-----------------------------------------------------------------------------
(* startServer: the promise and the listener's events                      *)

Pending == [state |-> "pending", settleCalls |-> 0]

\* resolve or reject called on a promise: only the first call settles it
settle(promise, outcome) ==
    IF promise.state = "pending"
    THEN [state |-> outcome.state, value |-> outcome.value,
          settleCalls |-> promise.settleCalls + 1]
    ELSE [promise EXCEPT !.settleCalls = @ + 1]

PortInUse == [message |-> "Port is already in use. Try a different port with --port option."]

\* Variant: every listener error is reported as a port in use
onErrorAlwaysPortInUse(promise, err) ==
    settle(promise, [state |-> "rejected", value |-> PortInUse])

\* server.on('error', (err) => ...)
onError(promise, err) ==
    IF err.code = "EADDRINUSE"
    THEN settle(promise, [state |-> "rejected", value |-> PortInUse])
    ELSE settle(promise, [state |-> "rejected", value |-> err])

\* server.listen(port, () => { resolve(); })
onListening(promise) == settle(promise, [state |-> "fulfilled", value |-> Undefined])


-----------------------------------------------------------------------------
(* Inputs: the HAR documents and the requests of the model                 *)

UrlA == <<"h","t","t","p",":","/","/","h","/","a","?","q">>
UrlProxyA == <<"h","t","t","p",":","/","/","h","/","p","r","o","x","y","/","a">>
PathA == <<"/","a">>
PathProxyA == <<"/","p","r","o","x","y","/","a">>

RawEntry(method, url, status, text, headers) ==
    [startedDateTime |-> <<"t">>,
     request |-> [method |-> method, url |-> url, headers |-> <<>>, queryString |-> <<>>],
     response |-> [status |-> status, headers |-> headers,
                   content |-> [text |-> text]]]

\* A log item without a request object
MalformedRaw ==
    [startedDateTime |-> <<"t">>,
     request |-> Undefined,
     response |-> [status |-> 200, headers |-> <<>>, content |-> [text |-> <<>>]]]

RawMethods == {<<"g","e","t">>, OPTIONS}
RawUrls == {UrlA, UrlProxyA}
RawResponses == {[status |-> 200, text |-> <<"A">>], [status |-> 404, text |-> <<"B">>]}

BasicRaw ==
    {RawEntry(m, u, r.status, r.text, <<>>) : m \in RawMethods, u \in RawUrls, r \in RawResponses}
        \cup {MalformedRaw}

Pair(name, value) == [name |-> name, value |-> value]

HeaderPairs ==
    {Pair(<<"C","o","n","t","e","n","t","-","L","e","n","g","t","h">>, <<"1">>),
     Pair(ContentEncodingLower, <<"g","z">>),
     Pair(<<"T","R","A","N","S","F","E","R","-","E","N","C","O","D","I","N","G">>, <<"c">>),
     Pair(AllowOrigin, <<"e">>),
     Pair(AllowOrigin, <<"f">>),
     Pair(toLowerCase(AllowMethods), GET),
     Pair(ContentType, TextHtml),
     Pair(contentType, ApplicationJson),
     Pair(toUpperCase(ContentType), TextHtml),
     Pair(<<"X","-","A">>, <<"1">>)}

\* Unusual recorded headers: an empty value, and the name '__proto__'
CornerPairs ==
    {Pair(ContentType, <<>>),
     Pair(ProtoKey, <<"1">>)}

SeqsUpTo(S, n) == UNION {[1..k -> S] : k \in 0..n}

HeaderRaw ==
    {RawEntry(b.method, UrlA, b.status, b.text, hs) :
        b \in {[method |-> <<"g","e","t">>, status |-> 200, text |-> <<"A">>],
               [method |-> OPTIONS, status |-> 204, text |-> <<>>]},
        hs \in SeqsUpTo(HeaderPairs, MaxHeaders)}

\* Recordings of /proxy/a whose header list holds an unusual header
CornerRaw ==
    {RawEntry(<<"g","e","t">>, UrlProxyA, 200, <<"A">>, hs) :
        hs \in {l \in SeqsUpTo(HeaderPairs \cup CornerPairs, MaxHeaders) :
                    \E i \in 1..Len(l) : l[i] \in CornerPairs}}

\* Recordings whose status is no HTTP status code: 0 is what a browser
\* records for a request that got no response
StatusRaw == {RawEntry(<<"g","e","t">>, UrlA, st, <<"A">>, <<>>) : st \in {0, 600}}

\* A log item without a response object
NoResponseRaw(method, url) ==
    [startedDateTime |-> <<"t">>,
     request |-> [method |-> method, url |-> url, headers |-> <<>>, queryString |-> <<>>],
     response |-> Undefined]

\* Recordings of one endpoint among which one has no response object
LateFailureLogs ==
    LET a == RawEntry(<<"g","e","t">>, UrlA, 200, <<"A">>, <<>>)
        b == RawEntry(<<"g","e","t">>, UrlA, 404, <<"B">>, <<>>)
        n == NoResponseRaw(<<"g","e","t">>, UrlA)
    IN  {<<a, n>>, <<n, a>>, <<a, b, n>>, <<a, n, b>>}

HarLogs ==
    SeqsUpTo(BasicRaw, MaxEntries) \cup {<<e>> : e \in HeaderRaw \cup CornerRaw \cup StatusRaw}
        \cup LateFailureLogs

RequestMethods == {GET, OPTIONS, <<"g","e","t">>, <<>>}
RequestUrls ==
    {<<>>,
     <<"/","?","q">>,
     PathA,
     PathProxyA,
     <<"/","p","r","o","x","y","/","A">>,
     <<"/","p","r","o","x","y","/","a","/">>,
     <<"/","p","r","o","x","y","/","a","?","q","?","r">>,
     <<"/","p","r","o","x","y","/","p","r","o","x","y","/","a">>,
     <<"/","p","r","o","x","y","f","o","o">>,
     PROXY_PREFIX}

\* A readable file holding a HAR document with the given log.entries
HarDocument(log) ==
    [read |-> "ok",
     json |-> [type |-> "object", log |-> [type |-> "object", entries |-> JArray(log)]]]

TextFile(json) == [read |-> "ok", json |-> json]

\* Files that readFile rejects, that are not JSON, or whose JSON value is not
\* an object with a log object holding an array entries
BrokenFiles ==
    {[read |-> "error"],
     TextFile([type |-> "syntaxError"]),
     TextFile(JNull),
     TextFile(JString),
     TextFile(JArray(<<RawEntry(GET, UrlA, 200, <<"A">>, <<>>)>>)),
     TextFile([type |-> "object"]),
     TextFile([type |-> "object", log |-> JNull]),
     TextFile([type |-> "object", log |-> JString]),
     TextFile([type |-> "object", log |-> [type |-> "object"]]),
     TextFile([type |-> "object", log |-> [type |-> "object", entries |-> JString]]),
     TextFile([type |-> "object", log |-> [type |-> "object",
                                          entries |-> [type |-> "object"]]]),
     TextFile([type |-> "object",
               entries |-> JArray(<<RawEntry(GET, UrlA, 200, <<"A">>, <<>>)>>)])}

\* A path at which no file exists
MissingFile == [read |-> "missing"]

HarFiles == {HarDocument(log) : log \in HarLogs} \cup BrokenFiles \cup {MissingFile}

\* The errors a listener emits when it cannot bind
ListenErrors ==
    {[code |-> "EADDRINUSE", message |-> "listen EADDRINUSE: address already in use"],
     [code |-> "EACCES", message |-> "listen EACCES: permission denied"]}

\* What server.listen(port) leads to: 'listening', or 'error'
ListenEvents ==
    {[type |-> "listening"]} \cup {[type |-> "error", err |-> e] : e \in ListenErrors}

NoReq == [none |-> TRUE]
NoRes == [kind |-> "none"]
NoText == [none |-> TRUE]
NoParse == [kind |-> "none"]
NoPromise == [state |-> "none"]
NoEvent == [type |-> "none"]
NoPage == [none |-> TRUE]

-----------------------------------------------------------------------------
(* cli.ts: runServer, and the listener                                     *)

Init ==
    /\ harFile \in HarFiles
    /\ cors \in BOOLEAN
    /\ pc = "start"
    /\ entries = <<>>
    /\ errors = <<>>
    /\ endpointMap = <<>>
    /\ req = NoReq
    /\ res = NoRes
    /\ logged = <<>>
    /\ formatted = NoText
    /\ reparsed = NoParse
    /\ dashboardHtml = NoPage
    /\ listenerEvent = NoEvent
    /\ startPromise = NoPromise
    /\ logger = TRUE
    /\ calls = <<>>

\* Variant: the file is not looked for
validateHarFileUnchecked(file) == [valid |-> TRUE]

\* existsSync(resolvedPath)
validateHarFile(file) ==
    IF file.read = "missing"
    THEN [valid |-> FALSE, error |-> "HAR file not found"]
    ELSE [valid |-> TRUE]

\* const validation = validateHarFile(harFilePath); process.exit(1) when the
\* file does not exist
ValidateHarFile ==
    /\ pc = "start"
    /\ pc' = IF validateHarFile(harFile).valid THEN "validated" ELSE "exitNotFound"
    /\ UNCHANGED <<dashboardHtml, listenerEvent, startPromise, logger, calls,
                   formatted, reparsed, harFile, cors,
                   entries, errors, endpointMap, req, res, logged>>

\* const result = await parseHarFile(validation.resolvedPath)
ParseHarFile ==
    /\ pc = "validated"
    /\ entries' = parseHarFile(harFile).entries
    /\ errors' = parseHarFile(harFile).errors
    /\ pc' = "parsed"
    /\ UNCHANGED <<dashboardHtml, listenerEvent, startPromise, logger, calls,
                   formatted, reparsed, harFile, cors,
                   endpointMap, req, res, logged>>

\* Variant: any reported error aborts
shouldAbortOnAnyError == Len(errors) > 0

\* result.errors.length > 0, and inside it result.entries.length === 0
shouldAbort == Len(errors) > 0 /\ Len(entries) = 0

\* process.exit(1) after the parse errors were printed
Abort ==
    /\ pc = "parsed"
    /\ shouldAbort
    /\ pc' = "exit"
    /\ UNCHANGED <<dashboardHtml, listenerEvent, startPromise, logger, calls,
                   formatted, reparsed, harFile, cors,
                   entries, errors, endpointMap, req, res, logged>>

\* createServer(config, dashboardHandler, logger)
CreateServer ==
    /\ pc = "parsed"
    /\ ~shouldAbort
    /\ endpointMap' = buildEndpointMap(entries)
    /\ dashboardHtml' = generateDashboard(entries)
    /\ pc' = "created"
    /\ UNCHANGED <<listenerEvent, startPromise, logger, calls, formatted, reparsed,
                   harFile, cors, entries, errors, req, res, logged>>

\* await startServer(server, port): the listener is bound and the promise
\* resolves, or the listener emits an error and the promise is rejected
StartServer ==
    /\ pc = "created"
    /\ \E event \in ListenEvents :
        /\ listenerEvent' = event
        /\ startPromise' = IF event.type = "listening"
                           THEN onListening(Pending)
                           ELSE onError(Pending, event.err)
        /\ pc' = IF event.type = "listening" THEN "listening" ELSE "startFailed"
    /\ UNCHANGED <<dashboardHtml, logger, calls, formatted, reparsed, harFile, cors,
                   entries, errors, endpointMap, req, res, logged>>

\* catch (error) { console.error(`Error starting server: ${message}`); process.exit(1) }
StartFailed ==
    /\ pc = "startFailed"
    /\ pc' = "exitStartFailed"
    /\ UNCHANGED <<dashboardHtml, listenerEvent, startPromise, logger, calls,
                   formatted, reparsed, harFile, cors,
                   entries, errors, endpointMap, req, res, logged>>

\* One request, handled to completion by the request handler, or up to the
\* exception that leaves it: nothing catches an exception thrown in the
\* 'request' listener, and the process ends
HandleRequest ==
    /\ pc = "listening"
    /\ \E m \in RequestMethods, u \in RequestUrls :
        LET r == [method |-> m, url |-> u]
            out == requestListener(endpointMap, cors, r, logger)
        IN  /\ req' = r
            /\ res' = out.res
            /\ logged' = out.logged
            /\ calls' = out.calls
            /\ endpointMap' = out.map
            /\ pc' = IF out.threw THEN "crashed" ELSE "responded"
    /\ UNCHANGED <<dashboardHtml, listenerEvent, startPromise, logger, formatted,
                   reparsed, harFile, cors, entries,
                   errors>>

\* The exchange is over; the listener waits for the next request
RequestDone ==
    /\ pc = "responded"
    /\ pc' = "listening"
    /\ req' = NoReq
    /\ res' = NoRes
    /\ logged' = <<>>
    /\ calls' = <<>>
    /\ UNCHANGED <<dashboardHtml, listenerEvent, startPromise, logger, formatted,
                   reparsed, harFile, cors, entries,
                   errors, endpointMap>>

Next ==
    \/ ValidateHarFile
    \/ ParseHarFile
    \/ Abort
    \/ CreateServer
    \/ StartServer
    \/ StartFailed
    \/ HandleRequest
    \/ RequestDone

Spec == Init /\ [][Next]_vars

-----------------------------------------------------------------------------
(* The server of a small recording, with or without a logger, whose        *)
(* listener may emit errors after it was bound                             *)

MaxSettleCalls == 2

ServerRaw ==
    {RawEntry(<<"g","e","t">>, UrlA, 200, <<"A">>, <<>>),
     RawEntry(OPTIONS, UrlA, 204, <<>>, <<>>),
     RawEntry(<<"g","e","t">>, UrlA, 0, <<>>, <<>>)}

ServerFiles ==
    {MissingFile, [read |-> "error"], HarDocument(<<>>)}
        \cup {HarDocument(<<item>>) : item \in ServerRaw}

\* createServer(config, dashboardHandler) and createServer(config,
\* dashboardHandler, logger)
ServerInit ==
    /\ harFile \in ServerFiles
    /\ cors \in BOOLEAN
    /\ pc = "start"
    /\ entries = <<>>
    /\ errors = <<>>
    /\ endpointMap = <<>>
    /\ req = NoReq
    /\ res = NoRes
    /\ logged = <<>>
    /\ formatted = NoText
    /\ reparsed = NoParse
    /\ dashboardHtml = NoPage
    /\ listenerEvent = NoEvent
    /\ startPromise = NoPromise
    /\ logger \in BOOLEAN
    /\ calls = <<>>

\* The listener emits 'error' after it was bound: the handler that
\* startServer registered with server.on runs again
ListenerError ==
    /\ pc = "listening"
    /\ startPromise.settleCalls < MaxSettleCalls
    /\ \E e \in ListenErrors :
        /\ listenerEvent' = [type |-> "error", err |-> e]
        /\ startPromise' = onError(startPromise, e)
    /\ UNCHANGED <<dashboardHtml, pc, logger, calls, formatted, reparsed, harFile, cors,
                   entries, errors, endpointMap, req, res, logged>>

ServerNext ==
    \/ Next
    \/ ListenerError

ServerSpec == ServerInit /\ [][ServerNext]_vars

-----------------------------------------------------------------------------
(* Ingestion of one log item: headers, query parameters and encoded bodies *)

RichEntry(method, status, timestamp, requestHeaders, queryString, responseHeaders, content) ==
    [startedDateTime |-> timestamp,
     request |-> [method |-> method, url |-> UrlA, headers |-> requestHeaders,
                  queryString |-> queryString],
     response |-> [status |-> status, headers |-> responseHeaders, content |-> content]]

RequestPairs == {Pair(<<"X","-","A">>, <<"1">>), Pair(<<"X","-","A">>, <<"2">>)}
QueryPairs == {Pair(<<"q">>, <<"1">>), Pair(<<"r">>, <<>>)}
ResponsePairs == {Pair(contentType, TextHtml), Pair(<<"X","-","A">>, <<"1">>)}

\* Items with every list filled in every order
CompleteRaw ==
    {RichEntry(m, st, t, rh, q, h, [size |-> 1, text |-> <<"A">>]) :
        m \in {<<"g","e","t">>, <<"P","o","s","t">>},
        st \in {200, 404},
        t \in {<<"t">>, <<"u">>},
        rh \in SeqsUpTo(RequestPairs, MaxPairs),
        q \in SeqsUpTo(QueryPairs, MaxPairs),
        h \in SeqsUpTo(ResponsePairs, MaxPairs)}

\* 'A', U+00E9, U+20AC, and the two halves of U+1F600
CodeUnits == {65, 233, 8364, 55357, 56832}
BodyStrings == SeqsUpTo(CodeUnits, MaxBody)

\* The base64 text of every body string
EncodedOf == [S \in BodyStrings |-> encodeBase64(S)]

\* content objects: base64 texts, texts under another or no encoding, and
\* contents without a text
Contents ==
    {[size |-> Len(S), text |-> EncodedOf[S], encoding |-> "base64"] : S \in BodyStrings}
        \cup {[size |-> 1, text |-> <<"Q","Q","=","=">>, encoding |-> e] : e \in {"gzip", "Base64"}}
        \cup {[size |-> 1, text |-> <<"Q","Q","=","=">>],
              [size |-> 0, text |-> <<>>],
              [size |-> 0, encoding |-> "base64"],
              [size |-> 0]}

EncodedRaw == {RichEntry(GET, 200, <<"t">>, <<>>, <<>>, <<>>, c) : c \in Contents}

IngestInit ==
    /\ harFile \in {HarDocument(<<item>>) : item \in CompleteRaw \cup EncodedRaw}
    /\ cors = TRUE
    /\ pc = "validated"
    /\ entries = <<>>
    /\ errors = <<>>
    /\ endpointMap = <<>>
    /\ req = NoReq
    /\ res = NoRes
    /\ logged = <<>>
    /\ formatted = NoText
    /\ reparsed = NoParse
    /\ dashboardHtml = NoPage
    /\ listenerEvent = NoEvent
    /\ startPromise = NoPromise
    /\ logger = TRUE
    /\ calls = <<>>

IngestNext == ParseHarFile

IngestSpec == IngestInit /\ [][IngestNext]_vars

-----------------------------------------------------------------------------
(* The text codec applied to one entry                                     *)

CharsetHtml == <<"t","e","x","t","/","h","t","m","l",";"," ","c","h","a","r","s","e","t","=","u","t","f","-","8">>

CodecPairs == {Pair(<<"X","-","A">>, <<"1">>), Pair(<<"b">>, <<"c",":"," ","d","=","e">>)}

\* Entries as transformEntry builds them: an upper-case method, the path of
\* a URL, a status code, lists of pairs with non-empty names, a body
CodecEntries ==
    {[method |-> GET, url |-> UrlA, path |-> PathA, queryString |-> q,
      requestHeaders |-> rh, status |-> st, responseHeaders |-> h,
      responseBody |-> b, contentType |-> ct, timestamp |-> <<"t">>] :
        q \in SeqsUpTo(CodecPairs, MaxPairs),
        rh \in SeqsUpTo(CodecPairs, MaxPairs),
        h \in SeqsUpTo(CodecPairs, MaxPairs),
        st \in {200, 404},
        b \in {<<>>, <<"A">>, <<"A",".",".",".">>},
        ct \in {TextHtml, CharsetHtml}}

CodecInit ==
    /\ harFile = HarDocument(<<>>)
    /\ cors = TRUE
    /\ pc = "entry"
    /\ entries \in {<<E>> : E \in CodecEntries}
    /\ errors = <<>>
    /\ endpointMap = <<>>
    /\ req = NoReq
    /\ res = NoRes
    /\ logged = <<>>
    /\ formatted = NoText
    /\ reparsed = NoParse
    /\ dashboardHtml = NoPage
    /\ listenerEvent = NoEvent
    /\ startPromise = NoPromise
    /\ logger = TRUE
    /\ calls = <<>>

\* const formatted = formatEntry(entry)
FormatEntry ==
    /\ pc = "entry"
    /\ formatted' = formatEntry(entries[1])
    /\ pc' = "formatted"
    /\ UNCHANGED <<dashboardHtml, listenerEvent, startPromise, logger, calls,
                   harFile, cors, entries, errors,
                   endpointMap, req, res, logged, reparsed>>

\* const parsed = parseFormattedEntry(formatted)
ParseFormattedEntry ==
    /\ pc = "formatted"
    /\ reparsed' = parseFormattedEntry(formatted)
    /\ pc' = "reparsed"
    /\ UNCHANGED <<dashboardHtml, listenerEvent, startPromise, logger, calls,
                   harFile, cors, entries, errors,
                   endpointMap, req, res, logged, formatted>>

CodecNext ==
    \/ FormatEntry
    \/ ParseFormattedEntry

CodecSpec == CodecInit /\ [][CodecNext]_vars

-----------------------------------------------------------------------------
(* parseFormattedEntry applied to texts that formatEntry did not write     *)

MaxLines == 2

\* First lines: the summary of an entry, the same with a wider gap or with a
\* ']' inside the timestamp, and lines that lack one of the five tokens
SummaryLines ==
    {<<"G"," ","/","a"," ","2","0"," ","t"," ","[","t","]">>,
     <<"G"," "," ","/","a"," ","2","0"," ","t"," ","[","t","]">>,
     <<"G"," ","/","a"," ","2","0"," ","t"," ","[","a","]"," ","[","b","]">>,
     <<"G"," ","/","a"," ","2","0"," ","t"," ","[","t">>,
     <<"G"," ","/","a"," ","2","0"," ","t"," ","t">>,
     <<"G"," ","/","a"," ","2","x"," ","t"," ","[","t","]">>,
     <<"G"," ","/","a"," ","2","0"," ","[","t","]">>,
     <<" ","G"," ","/","a"," ","2","0"," ","t"," ","[","t","]">>,
     <<"G"," ","/","a"," ","2","0"," ","t"," ","u"," ","[","t","]">>,
     <<"G"," ","/","a"," ","2","0"," ","t"," ","[","]">>,
     <<"G"," ","/","a"," ","2","0"," ","t"," ","[","t","]"," ">>,
     <<>>}

\* Lines after the first: section marks, a pair line of each kind, an
\* indented line that is no pair, a line that is not indented
SectionLines ==
    {RequestHeadersMark, QueryParametersMark, ResponseBodyMark,
     <<" "," ","a",":"," ","b">>, <<" "," ","a","=","b">>,
     <<" "," ","a","b">>, <<"x">>}

Texts ==
    {join(<<first>> \o rest) : first \in SummaryLines,
                               rest \in SeqsUpTo(SectionLines, MaxLines)}

\* What an earlier call that threw has left in the caller's hands
EarlierFailure == parseFormattedEntry(<<"x">>)

TextInit ==
    /\ harFile = HarDocument(<<>>)
    /\ cors = TRUE
    /\ pc = "formatted"
    /\ entries = <<>>
    /\ errors = <<>>
    /\ endpointMap = <<>>
    /\ req = NoReq
    /\ res = NoRes
    /\ logged = <<>>
    /\ formatted \in Texts
    /\ reparsed \in {NoParse, EarlierFailure}
    /\ dashboardHtml = NoPage
    /\ listenerEvent = NoEvent
    /\ startPromise = NoPromise
    /\ logger = TRUE
    /\ calls = <<>>

TextNext == ParseFormattedEntry

TextSpec == TextInit /\ [][TextNext]_vars

-----------------------------------------------------------------------------
(* Properties                                                              *)

\* The registry has been built and is not yet serving (it never changes later)
Built == pc = "created"

\* The method and the path the handler routes the current request on
ReqMethod == IF req.method = <<>> THEN GET ELSE toUpperCase(req.method)
ReqPath == stripQueryParams(IF req.url = <<>> THEN Slash ELSE req.url)

\* The entry the registry holds for the current request, or Null
ServedEntry ==
    LET key == ReqMethod \o <<":">> \o ReqPath
    IN  IF key \in DOMAIN endpointMap THEN endpointMap[key] ELSE Null

SameKey(e1, e2) == e1.method = e2.method /\ e1.path = e2.path

\* Index of the last entry of es with the method and path of es[i]
LastOf(es, i) ==
    CHOOSE j \in i..Len(es) :
        /\ SameKey(es[j], es[i])
        /\ \A k \in (j + 1)..Len(es) : ~SameKey(es[k], es[i])

NamedExcluded(name) ==
    toLowerCase(name) \in {ContentEncodingLower, TransferEncodingLower, ContentLengthLower}

\* Value of the last header of hs named exactly name
LastValue(hs, name) ==
    hs[CHOOSE j \in 1..Len(hs) :
            /\ hs[j].name = name
            /\ \A k \in (j + 1)..Len(hs) : hs[k].name # name].value

HasCorsDefaults(headers) ==
    \A n \in CorsNames : n \in DOMAIN headers /\ headers[n] = DEFAULT_CORS_HEADERS[n]

AccessControlPrefix == <<"a","c","c","e","s","s","-","c","o","n","t","r","o","l","-">>
isCorsHeaderName(name) == startsWith(toLowerCase(name), AccessControlPrefix)

\* C1: once the registry is built, looking up the method and proxy path of
\* any entry of the ingested sequence returns the last entry of the sequence
\* with that method and path.
C1_LastWriteWins ==
    Built =>
        \A i \in 1..Len(entries) :
            LET found == findMatchingEntry(entries[i].method,
                                           PROXY_PREFIX \o entries[i].path, endpointMap)
                last == entries[LastOf(entries, i)]
            IN  /\ found # Null
                /\ found = last
                /\ found.status = last.status
                /\ found.responseBody = last.responseBody

\* C1 witness: two entries of one key with another key between them, and the
\* request for that key is answered with the status of the later one.
C1_Witness ==
    /\ pc = "responded"
    /\ Len(entries) = 3
    /\ SameKey(entries[1], entries[3])
    /\ ~SameKey(entries[1], entries[2])
    /\ entries[1].status # entries[3].status
    /\ req.url = PROXY_PREFIX \o entries[1].path
    /\ ReqMethod = entries[1].method
    /\ res.kind = "hit"
    /\ res.status = entries[3].status

LookupMethods == {GET, <<"g","e","t">>, OPTIONS, <<"P","O","S","T">>}
LookupPaths ==
    {PathA, PathProxyA, <<"/","A">>, <<"/","a","/">>, <<"/">>, <<>>,
     <<"/","p","r","o","x","y">>}

\* C3: a lookup of (m, '/proxy' + p) finds an entry exactly when some
\* ingested entry has the upper-cased m as method and p as path.
C3_LookupExact ==
    Built =>
        \A m \in LookupMethods, p \in LookupPaths :
            (findMatchingEntry(m, PROXY_PREFIX \o p, endpointMap) # Null)
                <=> (\E i \in 1..Len(entries) :
                        entries[i].method = toUpperCase(m) /\ entries[i].path = p)

\* C3 witness: /a is found under a lower-case method while /A and /a/ miss.
C3_Witness ==
    /\ pc = "listening"
    /\ findMatchingEntry(<<"g","e","t">>, PROXY_PREFIX \o PathA, endpointMap) # Null
    /\ findMatchingEntry(GET, PROXY_PREFIX \o <<"/","A">>, endpointMap) = Null
    /\ findMatchingEntry(GET, PROXY_PREFIX \o <<"/","a","/">>, endpointMap) = Null
    /\ findMatchingEntry(OPTIONS, PROXY_PREFIX \o PathA, endpointMap) = Null

\* C4: every entry is registered under METHOD:/proxy+P and found there, every
\* key has that form, and neither a lookup nor a request at P itself matches
\* when P does not start with /proxy.
C4_NamespaceGating ==
    /\ Built =>
        /\ \A i \in 1..Len(entries) :
            LET e == entries[i]
            IN  /\ (e.method \o <<":">> \o PROXY_PREFIX \o e.path) \in DOMAIN endpointMap
                /\ findMatchingEntry(e.method, PROXY_PREFIX \o e.path, endpointMap) # Null
                /\ findMatchingEntry(e.method, PROXY_PREFIX \o e.path, endpointMap).path = e.path
                /\ ~startsWith(e.path, PROXY_PREFIX)
                    => findMatchingEntry(e.method, e.path, endpointMap) = Null
        /\ \A k \in DOMAIN endpointMap :
            \E i \in 1..Len(entries) :
                k = entries[i].method \o <<":">> \o PROXY_PREFIX \o entries[i].path
    /\ pc = "responded" =>
        \A i \in 1..Len(entries) :
            (/\ ~startsWith(entries[i].path, PROXY_PREFIX)
             /\ ReqMethod = entries[i].method
             /\ ReqPath = entries[i].path)
                => (res.kind # "hit" /\ ~res.lookup)

\* C4 witness: GET /a is recorded next to GET /proxy/a, and a GET request
\* at /a itself is not answered from the registry.
C4_Witness ==
    /\ pc = "responded"
    /\ \E i, j \in 1..Len(entries) :
        /\ entries[i].path = PathA
        /\ entries[i].method = GET
        /\ entries[j].path = PathProxyA
    /\ req.method = GET
    /\ req.url = PathA
    /\ res.status = 404

\* C5: the count of the registry is the number of distinct (method, path)
\* pairs of the ingested sequence.
C5_CountAccuracy ==
    Built =>
        getEndpointCount(endpointMap)
            = Cardinality({<<entries[i].method, entries[i].path>> : i \in 1..Len(entries)})

\* C5 witness: three entries, two of them sharing a key.
C5_Witness ==
    /\ pc = "listening"
    /\ Len(entries) = 3
    /\ getEndpointCount(endpointMap) = 2

C7_CorsOnEveryResponse ==
    (pc = "responded" /\ cors) => HasCorsDefaults(res.headers)

\* C8 as stated: with CORS disabled no response gets a CORS header the
\* recording does not hold, and on a hit every recorded CORS header is
\* written with its recorded value.
C8_NoCorsPreservesRecorded ==
    (pc = "responded" /\ ~cors) =>
        /\ res.kind \in {"notProxy", "miss"}
            => \A n \in CorsNames : n \notin DOMAIN res.headers
        /\ res.kind = "hit" =>
            LET hs == ServedEntry.responseHeaders
            IN  /\ \A n \in CorsNames :
                    n \in DOMAIN res.headers => \E i \in 1..Len(hs) : hs[i].name = n
                /\ \A i \in 1..Len(hs) :
                    isCorsHeaderName(hs[i].name)
                        => /\ hs[i].name \in DOMAIN res.headers
                           /\ res.headers[hs[i].name] = hs[i].value

IsPreflightResponse(r) ==
    /\ r.status = 204
    /\ r.headers = DEFAULT_CORS_HEADERS
    /\ r.body = EmptyBody \/ r.body = TextBody(<<>>)
    /\ ~r.lookup

\* C9: an OPTIONS request in the /proxy namespace gets the 204 preflight
\* answer (CORS headers only, empty body, no lookup) exactly when CORS is
\* enabled; with CORS disabled it gets the result of the registry lookup.
C9_Preflight ==
    (pc = "responded" /\ ReqMethod = OPTIONS /\ startsWith(ReqPath, PROXY_PREFIX)) =>
        /\ IsPreflightResponse(res) <=> cors
        /\ ~cors =>
            /\ res.lookup
            /\ ServedEntry = Null => (res.status = 404 /\ res.kind = "miss")
            /\ ServedEntry # Null
                => (res.kind = "hit" /\ res.status = ServedEntry.status)

\* C9 witness: an OPTIONS entry is recorded for the path and the request is
\* still answered by the preflight.
C9_Witness ==
    /\ pc = "responded"
    /\ cors
    /\ req.method = OPTIONS
    /\ ServedEntry # Null
    /\ ServedEntry.status = 404
    /\ res.status = 204

\* C10: on a hit no written header is named content-encoding,
\* transfer-encoding or content-length in any letter case.
C10_ExcludedHeadersDropped ==
    (pc = "responded" /\ res.kind = "hit") =>
        \A n \in DOMAIN res.headers : ~NamedExcluded(n)

\* C10 witness: the recording holds TRANSFER-ENCODING in upper case and
\* Content-Length in mixed case.
C10_Witness ==
    /\ pc = "responded"
    /\ res.kind = "hit"
    /\ Len(ServedEntry.responseHeaders) = 2
    /\ toLowerCase(ServedEntry.responseHeaders[1].name) = TransferEncodingLower
    /\ ServedEntry.responseHeaders[1].name # TransferEncodingLower
    /\ toLowerCase(ServedEntry.responseHeaders[2].name) = ContentLengthLower

NamedContentType(name) == toLowerCase(name) = contentType

\* C11 as stated: on a hit, when no recorded header is named content-type in
\* any letter case the derived content type is written as Content-Type; when
\* one is, the content-type headers written are the recorded ones with their
\* recorded values; and at most one written header is named content-type.
C11_ContentTypeInjectedOnlyWhenMissing ==
    (pc = "responded" /\ res.kind = "hit") =>
        LET hs == ServedEntry.responseHeaders
            recorded == {hs[i].name : i \in {j \in 1..Len(hs) : NamedContentType(hs[j].name)}}
            written == {n \in DOMAIN res.headers : NamedContentType(n)}
        IN  /\ recorded = {} =>
                /\ written = {ContentType}
                /\ res.headers[ContentType] = ServedEntry.contentType
            /\ recorded # {} =>
                /\ written = recorded
                /\ \A n \in written : res.headers[n] = LastValue(hs, n)
            /\ Cardinality(written) <= 1

BeforeFirstQuery(s) ==
    LET marks == {i \in 1..Len(s) : s[i] = "?"}
    IN  IF marks = {} THEN s
        ELSE SubSeq(s, 1, (CHOOSE i \in marks : \A j \in marks : i <= j) - 1)

\* C13: the path the handler routes on is the request target up to but
\* excluding its first '?' (the whole target when it holds none), it holds no
\* '?', stripping it again changes nothing, and the response is the one the
\* same request gets when its target is that path alone.
C13_QueryStripping ==
    pc = "responded" =>
        LET rawUrl == IF req.url = <<>> THEN Slash ELSE req.url
            path == logged[1].path
        IN  /\ path = BeforeFirstQuery(rawUrl)
            /\ \A i \in 1..Len(path) : path[i] # "?"
            /\ stripQueryParams(path) = path
            /\ stripQueryParams(rawUrl) = path
            /\ res = createRequestHandler(endpointMap, cors,
                                          [method |-> req.method, url |-> path]).res

\* C13 witness: a target with two '?' is answered from the recording of the
\* path before the first one.
C13_Witness ==
    /\ pc = "responded"
    /\ req.url = PathProxyA \o <<"?","q","?","r">>
    /\ logged[1].path = PathProxyA
    /\ res.kind = "hit"
    /\ res.body = TextBody(ServedEntry.responseBody)

\* The file holds a structurally valid HAR document
ValidDocument == harFile \notin BrokenFiles

\* log.entries of the document
LogItems == harFile.json.log.entries.items

\* The k-th smallest element of a set of numbers
Nth(S, k) == CHOOSE i \in S : Cardinality({j \in S : j <= i}) = k

\* The positions of the log items whose conversion throws (no request
\* object, or no response object)
FailingItems ==
    {i \in 1..Len(LogItems) :
        LogItems[i].request = Undefined \/ LogItems[i].response = Undefined}

\* C14: for a valid document parseHarFile returns a result in which every
\* failing item i (counted from 0) is absent from the entries and reported as
\* 'Error parsing entry i: <message>', in item order, and every other item,
\* the ones after a failing item included, is converted.
C14_CatchAndContinue ==
    (pc = "parsed" /\ ValidDocument) =>
        LET good == (1..Len(LogItems)) \ FailingItems
        IN  /\ Len(errors) = Cardinality(FailingItems)
            /\ Len(entries) = Cardinality(good)
            /\ \A k \in 1..Len(errors) :
                /\ errors[k].template = "Error parsing entry"
                /\ errors[k].index = Nth(FailingItems, k) - 1
                /\ errors[k].message =
                      (IF LogItems[Nth(FailingItems, k)].response = Undefined
                       THEN "Cannot read properties of undefined (reading 'content')"
                       ELSE "Cannot read properties of undefined (reading 'method')")
            /\ \A k \in 1..Len(entries) :
                entries[k] = transformEntry(LogItems[Nth(good, k)])

\* C14 witness: the second of three items fails; the first and the third are
\* converted and the error names entry 1.
C14_Witness ==
    /\ pc = "parsed"
    /\ ValidDocument
    /\ Len(LogItems) = 3
    /\ FailingItems = {2}
    /\ Len(entries) = 2
    /\ entries[2].status = LogItems[3].response.status
    /\ Len(errors) = 1
    /\ errors[1].index = 1

\* C15: for a file that cannot be read, that is not JSON, or whose JSON value
\* is not an object with a log object holding an array entries, parseHarFile
\* returns no entry and exactly one error, the one of that failure.
C15_TopLevelFailure ==
    (pc = "parsed" /\ ~ValidDocument) =>
        /\ entries = <<>>
        /\ Len(errors) = 1
        /\ errors[1].template =
                IF harFile.read # "ok" THEN "Failed to read file"
                ELSE IF harFile.json.type = "syntaxError" THEN "Invalid JSON format"
                ELSE "Invalid HAR file structure: missing log.entries array"

\* C15 witness: the document holds an entries array with a convertible item,
\* but at the top level and not under log.
C15_Witness ==
    /\ pc = "parsed"
    /\ harFile.read = "ok"
    /\ harFile.json.type = "object"
    /\ Get(harFile.json, "log") = JUndefined
    /\ Get(harFile.json, "entries").type = "array"
    /\ Len(harFile.json.entries.items) = 1
    /\ entries = <<>>
    /\ Len(errors) = 1

\* runServer went past the abort test and built the server
Started == pc \in {"created", "listening", "responded"}

\* C16: runServer exits exactly when ingestion reported an error and
\* produced no entry; it starts the server in every other case, with errors
\* and some entry, or with neither (the registry is then empty); once it has
\* exited no registry is built and no request is answered.
C16_AbortPolicy ==
    /\ pc = "exit" =>
        /\ Len(errors) > 0 /\ Len(entries) = 0
        /\ endpointMap = <<>> /\ res = NoRes
    /\ Started => (Len(errors) = 0 \/ Len(entries) > 0)
    /\ (Started /\ Len(entries) = 0) => DOMAIN endpointMap = {}

\* C16 witness: the listener is bound although ingestion reported an error,
\* because another item was converted.
C16_Witness ==
    /\ pc = "listening"
    /\ Len(errors) = 1
    /\ Len(entries) = 1
    /\ getEndpointCount(endpointMap) = 1

\* The pairs of two lists are the same, position by position
SamePairs(a, b) ==
    /\ Len(a) = Len(b)
    /\ \A i \in 1..Len(a) : a[i].name = b[i].name /\ a[i].value = b[i].value

\* C17: the entry converted from a log item has the item's method in upper
\* case, its url, status and timestamp, and its query parameters, request
\* headers and response headers pair by pair in the same order.
C17_Completeness ==
    (pc = "parsed" /\ ValidDocument) =>
        \A k \in 1..Len(entries) :
            LET raw == LogItems[Nth((1..Len(LogItems)) \ FailingItems, k)]
                E == entries[k]
            IN  /\ E.method = toUpperCase(raw.request.method)
                /\ Len(E.method) = Len(raw.request.method)
                /\ \A i \in 1..Len(E.method) :
                    \A j \in 1..Len(LowerAlpha) : E.method[i] # LowerAlpha[j]
                /\ E.url = raw.request.url
                /\ E.status = raw.response.status
                /\ E.timestamp = raw.startedDateTime
                /\ SamePairs(E.queryString, raw.request.queryString)
                /\ SamePairs(E.requestHeaders, raw.request.headers)
                /\ SamePairs(E.responseHeaders, raw.response.headers)

\* C17 witness: a mixed-case method and three lists of two different pairs.
C17_Witness ==
    /\ pc = "parsed"
    /\ Len(entries) = 1
    /\ LogItems[1].request.method = <<"P","o","s","t">>
    /\ entries[1].method = <<"P","O","S","T">>
    /\ Len(entries[1].requestHeaders) = 2
    /\ entries[1].requestHeaders[1].value = <<"2">>
    /\ entries[1].requestHeaders[2].value = <<"1">>
    /\ Len(entries[1].queryString) = 2
    /\ entries[1].queryString[1] # entries[1].queryString[2]
    /\ Len(entries[1].responseHeaders) = 2
    /\ entries[1].responseHeaders[1].name = <<"X","-","A">>
    /\ entries[1].status = 404

\* No code unit of S is a surrogate without its partner
WellFormed(S) ==
    \A i \in 1..Len(S) :
        /\ isHighSurrogate(S[i]) => (i < Len(S) /\ isLowSurrogate(S[i + 1]))
        /\ isLowSurrogate(S[i]) => (i > 1 /\ isHighSurrogate(S[i - 1]))

\* content of the only item of the document
ItemContent == LogItems[1].response.content

IsBase64Content ==
    /\ "text" \in DOMAIN ItemContent
    /\ "encoding" \in DOMAIN ItemContent
    /\ ItemContent.encoding = "base64"

\* The bodies of a content are as C18 says for the strings of the set Ss
BodiesAsEncoded(Ss) ==
    /\ IsBase64Content =>
        \A S \in Ss :
            ItemContent.text = EncodedOf[S] =>
                /\ decodeBase64(encodeBase64(S)) = S
                /\ entries[1].responseBody = S
    /\ ("text" \in DOMAIN ItemContent /\ ~IsBase64Content) =>
        entries[1].responseBody = ItemContent.text
    /\ "text" \notin DOMAIN ItemContent => entries[1].responseBody = <<>>

C19_StatusInRange ==
    /\ \A i \in 1..Len(entries) : entries[i].status \in 100..599
    /\ \A k \in DOMAIN endpointMap : endpointMap[k].status \in 100..599
    /\ (pc = "responded" /\ res.kind = "hit") => res.status \in 100..599

\* C20 as stated: for an entry whose body has at most 200 characters and
\* whose header and query values hold no newline, parsing the formatted text
\* gives an entry with the same method, path, status, content type and
\* timestamp and the same request headers, response headers and query
\* parameters, pair by pair.
C20_CodecRoundTrip ==
    LET E == entries[1]
        values == {E.requestHeaders[i].value : i \in 1..Len(E.requestHeaders)}
                    \cup {E.responseHeaders[i].value : i \in 1..Len(E.responseHeaders)}
                    \cup {E.queryString[i].value : i \in 1..Len(E.queryString)}
    IN  (/\ pc = "reparsed"
         /\ Len(E.responseBody) <= 200
         /\ \A v \in values : \A i \in 1..Len(v) : v[i] # NL) =>
            /\ reparsed.kind = "entry"
            /\ reparsed.entry.method = E.method
            /\ reparsed.entry.path = E.path
            /\ reparsed.entry.status = E.status
            /\ reparsed.entry.contentType = E.contentType
            /\ reparsed.entry.timestamp = E.timestamp
            /\ SamePairs(reparsed.entry.requestHeaders, E.requestHeaders)
            /\ SamePairs(reparsed.entry.responseHeaders, E.responseHeaders)
            /\ SamePairs(reparsed.entry.queryString, E.queryString)

\* C21 as stated: for an entry whose body has at most 200 characters and no
\* newline, the body of the entry parsed from the formatted text is the body
\* of the entry (stated for the texts that parse).
C21_BodyRoundTrip ==
    LET E == entries[1]
    IN  (/\ pc = "reparsed"
         /\ reparsed.kind = "entry"
         /\ Len(E.responseBody) <= 200
         /\ \A i \in 1..Len(E.responseBody) : E.responseBody[i] # NL) =>
            reparsed.entry.responseBody = E.responseBody


\* The five-token pattern, stated as the existence of a division of the line:
\* token, gap, token, gap, digits, gap, token, gap, '[', timestamp, ']',
\* where a token has no white space, a gap is white space only, and every
\* part but the brackets is non-empty
NoSpaceIn(line, a, b) == \A i \in a..b : ~(line[i] \in {" ", NL})
OnlySpaceIn(line, a, b) == \A i \in a..b : line[i] = " "
OnlyDigitsIn(line, a, b) ==
    \A i \in a..b : line[i] \in {"0","1","2","3","4","5","6","7","8","9"}
IsSummaryLine(line) ==
    LET n == Len(line)
    IN  \E e1 \in 1..n : NoSpaceIn(line, 1, e1) /\
        \E g1 \in (e1 + 1)..n : OnlySpaceIn(line, e1 + 1, g1) /\
        \E e2 \in (g1 + 1)..n : NoSpaceIn(line, g1 + 1, e2) /\
        \E g2 \in (e2 + 1)..n : OnlySpaceIn(line, e2 + 1, g2) /\
        \E e3 \in (g2 + 1)..n : OnlyDigitsIn(line, g2 + 1, e3) /\
        \E g3 \in (e3 + 1)..n : OnlySpaceIn(line, e3 + 1, g3) /\
        \E e4 \in (g3 + 1)..n : NoSpaceIn(line, g3 + 1, e4) /\
        \E g4 \in (e4 + 1)..n : OnlySpaceIn(line, e4 + 1, g4) /\
            /\ g4 + 3 <= n
            /\ line[g4 + 1] = "["
            /\ line[n] = "]"
FirstLine(text) == SubSeq(text, 1, firstOf(text, {NL}) - 1)

\* C22: parseFormattedEntry returns either an error or an entry, never both;
\* it returns the error exactly when the first line of the text is not of the
\* five-token form, whatever the lines after it are and whether or not an
\* earlier call failed; the error names that first line.
C22_FormatErrors ==
    pc = "reparsed" =>
        /\ reparsed.kind \in {"error", "entry"}
        /\ (reparsed.kind = "error") <=> ~IsSummaryLine(FirstLine(formatted))
        /\ reparsed.kind = "error" =>
              /\ DOMAIN reparsed = {"kind", "message", "line"}
              /\ reparsed.line = FirstLine(formatted)
        /\ reparsed.kind = "entry" => DOMAIN reparsed = {"kind", "entry"}

\* A text with a good first line, then an indented line outside any section
\* and a line that is not indented, parsed to an entry without headers
C22_Witness ==
    /\ pc = "reparsed"
    /\ formatted = join(<<<<"G"," ","/","a"," ","2","0"," ","t"," ","[","t","]">>,
                          <<" "," ","a","b">>, <<"x">>>>)
    /\ reparsed.kind = "entry"
    /\ reparsed.entry.requestHeaders = <<>>


\* A step of the created server keeps the registry and the entries, and a
\* step that handles a request writes what the handler computes from the
\* registry built at startup, the CORS setting and that request
RegistryKept ==
    pc \in {"created", "listening", "responded"} =>
        /\ endpointMap' = endpointMap
        /\ entries' = entries
        /\ pc' \in {"responded", "crashed"} =>
              res' = createRequestHandler(buildEndpointMap(entries), cors, req').res

\* C23: once the server is created, no step changes the registry or the
\* entries, with or without a logger; so the response written for a request
\* is the one the handler computes from the registry built at startup, the
\* CORS setting and that request alone, whatever was handled before.
C23_ReadOnlyRegistry == [][RegistryKept]_vars

\* A recorded entry is being replayed by a server without a logger whose
\* listener has been active for a while (it has emitted an error since it
\* was bound), from the registry built at startup
C23_Witness ==
    /\ pc = "responded"
    /\ res.kind = "hit"
    /\ ~logger
    /\ startPromise.settleCalls = 2
    /\ endpointMap = buildEndpointMap(entries)
    /\ DOMAIN endpointMap # {}


\* The promise of startServer at each position of runServer
StartSettled ==
    /\ pc \in {"start", "validated", "parsed", "created", "exit", "exitNotFound"} =>
          startPromise = NoPromise
    /\ pc \in {"listening", "responded", "crashed"} =>
          /\ startPromise.state = "fulfilled"
          /\ startPromise.settleCalls >= 1
    /\ pc \in {"startFailed", "exitStartFailed"} =>
          /\ startPromise.state = "rejected"
          /\ startPromise.settleCalls = 1
          /\ listenerEvent.type = "error"
          /\ listenerEvent.err.code = "EADDRINUSE" =>
                /\ startPromise.value = PortInUse
                /\ startPromise.value # listenerEvent.err
          /\ listenerEvent.err.code # "EADDRINUSE" =>
                startPromise.value = listenerEvent.err

\* A settled promise stays as it is; a failed start is followed by the exit
\* only, and nothing follows the exit
StartStep ==
    /\ startPromise.state \in {"fulfilled", "rejected"} =>
          /\ startPromise'.state = startPromise.state
          /\ startPromise'.value = startPromise.value
    /\ pc = "startFailed" => pc' = "exitStartFailed"
    /\ pc = "exitStartFailed" => pc' = "exitStartFailed"

\* C24: the promise of startServer is fulfilled when the listener is bound
\* and stays fulfilled whatever the listener emits later; it is rejected by
\* the first listener error, with the port-in-use error for EADDRINUSE and
\* with the emitted error otherwise; after a rejection runServer exits and
\* never binds.
C24_ListenerStart == [](StartSettled) /\ [][StartStep]_vars

\* The port was in use: the promise is rejected with the port-in-use error
\* and runServer has exited
C24_Witness ==
    /\ pc = "exitStartFailed"
    /\ listenerEvent.type = "error"
    /\ listenerEvent.err.code = "EADDRINUSE"
    /\ startPromise.value = PortInUse


\* The rows of the page, by position: group, then endpoint within the group
RowPositions ==
    {<<g, e>> : g \in 1..Len(dashboardHtml.groups), e \in 1..MaxEntries} \cap
    {p \in (1..MaxEntries) \X (1..MaxEntries) :
        /\ p[1] <= Len(dashboardHtml.groups)
        /\ p[2] <= Len(dashboardHtml.groups[p[1]].endpoints)}
RowAt(p) == dashboardHtml.groups[p[1]].endpoints[p[2]]

\* C25 as stated: once the page is generated, every entry has a row showing
\* '/proxy' followed by its path, with its method, status code and content
\* type.
C25_DashboardPaths ==
    Built =>
        \A i \in 1..Len(entries) :
            \E p \in RowPositions :
                /\ RowAt(p).path = escapeHtml(PROXY_PREFIX \o entries[i].path)
                /\ RowAt(p).method = escapeHtml(entries[i].method)
                /\ RowAt(p).status = numberToString(entries[i].status)
                /\ RowAt(p).contentType = escapeHtml(entries[i].contentType)

\* The header line of a page that announces n endpoints
HeaderOf(n) ==
    numberToString(n) \o <<" ","e","n","d","p","o","i","n","t">>
        \o (IF n = 1 THEN <<>> ELSE <<"s">>) \o <<" ","l","o","a","d","e","d">>

C26_StartupOrdering ==
    /\ pc \notin {"start", "exitNotFound"} => harFile.read # "missing"
    /\ pc \in {"start", "validated", "exitNotFound"} =>
          entries = <<>> /\ errors = <<>>
    /\ pc \in {"start", "validated", "parsed", "exit", "exitNotFound"} =>
          /\ endpointMap = <<>>
          /\ dashboardHtml = NoPage
    /\ pc \in {"start", "validated", "parsed", "created", "exit", "exitNotFound"} =>
          /\ listenerEvent = NoEvent
          /\ startPromise = NoPromise
          /\ res = NoRes
    /\ pc = "exit" => (Len(errors) > 0 /\ Len(entries) = 0)
    /\ pc \in {"created", "listening"} =>
          /\ entries = parseHarFile(harFile).entries
          /\ errors = parseHarFile(harFile).errors
    /\ pc \in {"created", "listening", "responded", "crashed"} =>
          /\ endpointMap = buildEndpointMap(entries)
          /\ ~(Len(errors) > 0 /\ Len(entries) = 0)
    /\ pc \in {"listening", "responded", "crashed"} => listenerEvent.type = "listening"
    /\ res # NoRes => pc \in {"responded", "crashed"}

\* A recorded entry is replayed by a server whose ingestion reported an
\* error for another item of the file
C26_Witness ==
    /\ pc = "responded"
    /\ res.kind = "hit"
    /\ Len(errors) > 0
    /\ listenerEvent.type = "listening"


\* C27 as stated: a handled request has made one dashboardHandler call, or
\* one writeHead call followed by one end call; with a logger it has then
\* made one logger call, with the upper-cased method, the stripped path and
\* the status written (200 for the dashboard), and without a logger none; the
\* response is the one the handler computes when the logger is given and
\* when it is not.
C27_OneResponseOneLogLine ==
    req # NoReq =>
        LET response == IF res.kind = "dashboard"
                        THEN <<"dashboardHandler">>
                        ELSE <<"writeHead", "end">>
        IN  /\ calls = response \o (IF logger THEN <<"logger">> ELSE <<>>)
            /\ logger => logged = <<LogCall(ReqMethod, ReqPath, res.status)>>
            /\ ~logger => logged = <<>>
            /\ res = requestListener(endpointMap, cors, req, TRUE).res
            /\ res = requestListener(endpointMap, cors, req, FALSE).res


\* The stripped path of the request is '/proxy' or begins with '/proxy/'
InsideNamespace == ReqPath = PROXY_PREFIX \/ startsWith(ReqPath, PROXY_PREFIX \o Slash)

\* C28 as stated: a request gets a recorded response or the 204 preflight
\* only if its stripped path is '/proxy' or begins with '/proxy/'; a request
\* whose stripped path is not the dashboard's and is outside that namespace,
\* '/proxyfoo' included, gets the 'not a proxy endpoint' 404 without a lookup.
C28_NamespaceBoundary ==
    pc = "responded" =>
        /\ res.kind \in {"hit", "preflight"} => InsideNamespace
        /\ (~InsideNamespace /\ res.kind # "dashboard") =>
              /\ res.kind = "notProxy"
              /\ res.status = 404
              /\ ~res.lookup


\* The key under which a log item with a request object was recorded
RecordedKey(item) ==
    toUpperCase(item.request.method) \o <<":">> \o PROXY_PREFIX \o extractPath(item.request.url)

\* The last element of a non-empty set of positions
Latest(S) == CHOOSE i \in S : \A j \in S : j <= i

\* C29: for a valid document of n items, entries and errors together have n
\* elements; the entries are the conversions of the items that do not fail,
\* in the order of the document; the registry holds, for every key, the
\* last of the entries with that key; and a failing item that was the last
\* recording of its key leaves the key to the last recording of it that was
\* converted.
C29_IngestionConservation ==
    (Built /\ ValidDocument) =>
        LET n == Len(LogItems)
            converted == SelectSeq(LogItems,
                            LAMBDA item : item.request # Undefined /\ item.response # Undefined)
            Occurrences(k) == {i \in 1..Len(entries) : EntryKey(entries[i]) = k}
            Recorded(k) == {i \in 1..n : /\ LogItems[i].request # Undefined
                                         /\ RecordedKey(LogItems[i]) = k}
        IN  /\ Len(entries) + Len(errors) = n
            /\ Len(entries) = Len(converted)
            /\ \A i \in 1..Len(entries) : entries[i] = transformEntry(converted[i])
            /\ DOMAIN endpointMap = {EntryKey(entries[i]) : i \in 1..Len(entries)}
            /\ \A k \in DOMAIN endpointMap :
                  endpointMap[k] = entries[Latest(Occurrences(k))]
            /\ \A i \in FailingItems :
                  LogItems[i].request # Undefined =>
                      LET k == RecordedKey(LogItems[i])
                          good == Recorded(k) \ FailingItems
                      IN  (Latest(Recorded(k)) = i /\ good # {}) =>
                              endpointMap[k] = transformEntry(LogItems[Latest(good)])

\* Three recordings of GET /a: 200, then 404, then one without a response,
\* which fails conversion; the registry serves the 404
C29_Witness ==
    /\ Built
    /\ Len(LogItems) = 3
    /\ FailingItems = {3}
    /\ LogItems[3].request # Undefined
    /\ Len(entries) = 2
    /\ Len(errors) = 1
    /\ DOMAIN endpointMap = {RecordedKey(LogItems[3])}
    /\ endpointMap[RecordedKey(LogItems[3])].status = 404

====
